---- MODULE Spec2Model ----
(***************************************************************************)
(* Model of leapp.messaging.answerstore.AnswerStore.                       *)
(*                                                                         *)
(* Python strings are sequences of one-character strings, so that lower(), *)
(* int(), split(';'), ';'.join() and str() are computed character by       *)
(* character.  Python values are records tagged with their type.           *)
(***************************************************************************)
EXTENDS Integers, Sequences, FiniteSets, TLC

VARIABLES storage, wloc, ret, lastAnswer, pre, everStored, worder, calls,
          comps, tr, file, rt, wf, found

vars == <<storage, wloc, ret, lastAnswer, pre, everStored, worder, calls,
          comps, tr, file, rt, wf, found>>

storeVars == <<storage, wloc, ret, lastAnswer, pre, everStored, worder, calls>>
transVars == <<comps, tr>>
roundVars == <<file, rt>>
discVars  == <<wf, found>>

-----------------------------------------------------------------------------
(* Python values *)

StrV(s)   == [t |-> "str",   v |-> s]
BoolV(b)  == [t |-> "bool",  v |-> b]
IntV(n)   == [t |-> "int",   v |-> n]
TupleV(q) == [t |-> "tuple", v |-> q]
NoneV     == [t |-> "none",  v |-> <<>>]

\* isinstance(x, six.string_types)
IsString(x) == x.t = "str"

sA == <<"a">>
sB == <<"b">>
sC == <<"c">>

\* bool(x): the truth value Python gives a value in `if x:`
Truthy(x) ==
  CASE x.t = "none"  -> FALSE
    [] x.t = "bool"  -> x.v
    [] x.t = "int"   -> x.v # 0
    [] x.t = "str"   -> Len(x.v) > 0
    [] x.t = "tuple" -> Len(x.v) > 0

-----------------------------------------------------------------------------
(* dict and the manager's dict proxy *)

EmptyDict == [k \in {} |-> NoneV]

\* d[key] = value
DictSetDropsOthers(d, key, value) == [k \in {key} |-> value]

DictSet(d, key, value) ==
  [k \in (DOMAIN d) \cup {key} |-> IF k = key THEN value ELSE d[k]]

\* d.get(key)
DictGet(d, key) == IF key \in DOMAIN d THEN d[key] ELSE NoneV

\* An entry of _storage: a plain dict (pickled by value into the manager) or
\* a DictProxy created by manager.dict() (held by reference).
Plain(m)  == [shared |-> FALSE, m |-> m]
Shared(m) == [shared |-> TRUE,  m |-> m]

\* self._storage[scope] = entry
StoragePutMerge(st, scope, entry) ==
  [s \in (DOMAIN st) \cup {scope} |->
     IF s # scope THEN st[s]
     ELSE IF scope \in DOMAIN st
          THEN [entry EXCEPT !.m = [k \in (DOMAIN st[s].m) \cup (DOMAIN entry.m) |->
                                     IF k \in DOMAIN entry.m THEN entry.m[k] ELSE st[s].m[k]]]
          ELSE entry]

StoragePut(st, scope, entry) ==
  [s \in (DOMAIN st) \cup {scope} |-> IF s = scope THEN entry ELSE st[s]]

\* self._storage.get(scope, fallback); the fallback is returned as given
StorageGetNoFallback(st, scope, fallback) ==
  IF scope \in DOMAIN st THEN st[scope] ELSE Plain(EmptyDict)

StorageGet(st, scope, fallback) ==
  IF scope \in DOMAIN st THEN st[scope] ELSE fallback

-----------------------------------------------------------------------------
(* Strings *)

LowerChar(c) ==
  CASE c = "T" -> "t" [] c = "R" -> "r" [] c = "U" -> "u" [] c = "E" -> "e"
    [] c = "F" -> "f" [] c = "A" -> "a" [] c = "L" -> "l" [] c = "S" -> "s"
    [] OTHER -> c

\* s.lower()
Lower(s) == [i \in 1..Len(s) |-> LowerChar(s[i])]

RECURSIVE LStrip(_)
LStrip(s) == IF Len(s) > 0 /\ Head(s) = " " THEN LStrip(Tail(s)) ELSE s

RECURSIVE RStrip(_)
RStrip(s) ==
  IF Len(s) > 0 /\ s[Len(s)] = " " THEN RStrip(SubSeq(s, 1, Len(s) - 1)) ELSE s

\* s.strip()
Strip(s) == RStrip(LStrip(s))

\* s.split(sep): the list of the pieces between the separators
RECURSIVE SplitFrom(_, _, _)
SplitFrom(s, sep, cur) ==
  IF Len(s) = 0 THEN <<cur>>
  ELSE IF Head(s) = sep THEN <<cur>> \o SplitFrom(Tail(s), sep, <<>>)
  ELSE SplitFrom(Tail(s), sep, Append(cur, Head(s)))

Split(s, sep) == SplitFrom(s, sep, <<>>)

\* sep.join(parts)
RECURSIVE Join(_, _)
Join(sep, parts) ==
  IF Len(parts) = 0 THEN <<>>
  ELSE IF Len(parts) = 1 THEN parts[1]
  ELSE parts[1] \o <<sep>> \o Join(sep, Tail(parts))

Digits == <<"0", "1", "2", "3", "4", "5", "6", "7", "8", "9">>
IsDigit(c) == \E d \in 1..10 : Digits[d] = c
DigitVal(c) == (CHOOSE d \in 1..10 : Digits[d] = c) - 1

RECURSIVE DigitsVal(_, _)
DigitsVal(s, acc) ==
  IF Len(s) = 0 THEN acc ELSE DigitsVal(Tail(s), 10 * acc + DigitVal(Head(s)))

AllDigits(s) == Len(s) > 0 /\ \A i \in 1..Len(s) : IsDigit(s[i])

\* the body of a literal after whitespace has been stripped: (sign, digits);
\* the strings of the model hold no '_' and no digit outside 0-9
IntBody(s) ==
  LET b == Strip(s) IN
    IF Len(b) > 0 /\ Head(b) \in {"+", "-"}
      THEN [neg |-> Head(b) = "-", d |-> Tail(b)]
      ELSE [neg |-> FALSE, d |-> b]

\* int(s) raises ValueError
IntFails(s) == ~AllDigits(IntBody(s).d)

\* int(s) when it does not raise
IntParse(s) ==
  LET b == IntBody(s) IN IF b.neg THEN 0 - DigitsVal(b.d, 0) ELSE DigitsVal(b.d, 0)

RECURSIVE NatStr(_)
NatStr(n) ==
  IF n < 10 THEN <<Digits[n + 1]>> ELSE NatStr(n \div 10) \o <<Digits[(n % 10) + 1]>>

\* '{}'.format(x) of a value
Format(x) ==
  CASE x.t = "str"   -> x.v
    [] x.t = "int"   -> IF x.v < 0 THEN <<"-">> \o NatStr(0 - x.v) ELSE NatStr(x.v)
    [] x.t = "bool"  -> IF x.v THEN <<"T", "r", "u", "e">> ELSE <<"F", "a", "l", "s", "e">>

-----------------------------------------------------------------------------
(* Answer files *)

Line(kind, key, value) == [kind |-> kind, key |-> key, value |-> value]
Section(name)      == Line("section", name, <<>>)
Option(key, value) == Line("option", key, value)
NoValue(key)       == Line("novalue", key, <<>>)
Comment            == Line("comment", "", <<>>)
Blank              == Line("blank", "", <<>>)

\* configparser's optionxform: option names are lower-cased
OptionXForm(key) == IF key = "K3" THEN "k3" ELSE key

\* conf.read(): section -> dict of the raw items of the section; commented and
\* blank lines carry nothing, a key without '=' has the value None
RECURSIVE ParseLines(_, _, _)
ParseLines(lines, cur, acc) ==
  IF Len(lines) = 0 THEN acc
  ELSE LET l == Head(lines) IN
    CASE l.kind = "section" ->
           ParseLines(Tail(lines), l.key,
                      IF l.key \in DOMAIN acc THEN acc
                      ELSE [s \in (DOMAIN acc) \cup {l.key} |->
                              IF s = l.key THEN EmptyDict ELSE acc[s]])
      [] l.kind = "option" ->
           ParseLines(Tail(lines), cur,
                      [acc EXCEPT ![cur] = DictSet(@, OptionXForm(l.key), StrV(Strip(l.value)))])
      [] l.kind = "novalue" ->
           ParseLines(Tail(lines), cur,
                      [acc EXCEPT ![cur] = DictSet(@, OptionXForm(l.key), NoneV)])
      [] OTHER -> ParseLines(Tail(lines), cur, acc)

Parse(lines) == ParseLines(lines, "", [s \in {} |-> EmptyDict])

\* for section in conf.sections(): self._storage[section] = wrap(dict(items))
LoadInto(st, conf, shared) ==
  [s \in (DOMAIN st) \cup (DOMAIN conf) |->
     IF s \in DOMAIN conf
       THEN (IF shared THEN Shared(conf[s]) ELSE Plain(conf[s]))
       ELSE st[s]]

-----------------------------------------------------------------------------
(* AnswerStore.answer, AnswerStore.get and AnswerStore.load, with the calls *)
(* of answer made by two worker processes that share the manager's dict.    *)
(* Every step is one request to the manager.                                *)

Scopes  == {"s1", "s2"}
Keys    == {"k1", "k2"}
Writers == {"w1", "w2"}

\* the number of calls of answer the workers make in one run
MaxCalls == 3

AnswerValues == {StrV(sA), BoolV(TRUE)}
Fallbacks    == {NoneV}

StoreFiles ==
  { <<Section("s1"), Option("k2", sA), Blank, Section("s2"), Comment, NoValue("k1")>> }

IdleW == [pc |-> "idle", scope |-> "s1", key |-> "k1", value |-> NoneV,
          ref |-> FALSE, ds |-> EmptyDict, snap |-> EmptyDict,
          after |-> {}, clean |-> FALSE]

NoAnswer == [valid |-> FALSE, scope |-> "s1", key |-> "k1", value |-> NoneV]
NoRet    == [valid |-> FALSE, scope |-> "s1", fallback |-> NoneV, val |-> NoneV,
             stored |-> FALSE, last |-> NoAnswer]

Busy(p) == wloc[p].pc \in {"got", "set"}

\* a step of p falls between the read and the write-back of every busy writer
Interleave(w, p) ==
  [q \in Writers |-> IF q # p /\ Busy(q) THEN [w[q] EXCEPT !.clean = FALSE] ELSE w[q]]

\* line 20: dialog_scope = self._storage.get(scope, {})
AnswerGet(p, scope, key, value) ==
  /\ wloc[p].pc = "idle"
  /\ calls < MaxCalls
  /\ calls' = calls + 1
  /\ LET e == StorageGet(storage, scope, Plain(EmptyDict)) IN
       wloc' = [Interleave(wloc, p) EXCEPT ![p] =
                  [pc |-> "got", scope |-> scope, key |-> key, value |-> value,
                   ref |-> e.shared,
                   ds |-> IF e.shared THEN EmptyDict ELSE e.m,
                   snap |-> e.m,
                   after |-> {q \in Writers : wloc[q].pc = "done"},
                   clean |-> TRUE]]
  /\ ret' = NoRet
  /\ UNCHANGED <<storage, lastAnswer, pre, everStored, worder>>

\* line 21: dialog_scope[key] = value; on a DictProxy this is a request that
\* changes the shared dict, on a plain dict it changes the local copy
AnswerSetItem(p) ==
  /\ wloc[p].pc = "got"
  /\ LET w == wloc[p] IN
       IF w.ref
         THEN /\ storage' = [storage EXCEPT ![w.scope].m = DictSet(@, w.key, w.value)]
              /\ wloc' = [Interleave(wloc, p) EXCEPT ![p].pc = "set"]
              /\ lastAnswer' = NoAnswer
         ELSE /\ wloc' = [Interleave(wloc, p) EXCEPT ![p].pc = "set",
                                                    ![p].ds = DictSet(w.ds, w.key, w.value)]
              /\ UNCHANGED <<storage, lastAnswer>>
  /\ ret' = NoRet
  /\ UNCHANGED <<pre, everStored, worder, calls>>

\* line 25: self._storage[scope] = dialog_scope
AnswerWriteBack(p) ==
  /\ wloc[p].pc = "set"
  /\ LET w == wloc[p] IN
       /\ storage' = StoragePut(storage, w.scope,
                                IF w.ref THEN storage[w.scope] ELSE Plain(w.ds))
       /\ lastAnswer' = [valid |-> w.clean, scope |-> w.scope, key |-> w.key,
                         value |-> w.value]
       /\ everStored' = everStored \cup {w.scope}
  /\ wloc' = [Interleave(wloc, p) EXCEPT ![p].pc = "done"]
  /\ worder' = Append(worder, p)
  /\ ret' = NoRet
  /\ UNCHANGED <<pre, calls>>

\* AnswerStore.get(scope, fallback)
Get(scope, fallback) ==
  /\ ret' = [valid |-> TRUE, scope |-> scope, fallback |-> fallback,
             val |-> StorageGet(storage, scope, fallback),
             stored |-> scope \in everStored, last |-> lastAnswer]
  /\ UNCHANGED <<storage, wloc, lastAnswer, pre, everStored, worder, calls>>

\* AnswerStore.load(answer_file), called by the driver while no worker runs
Load(f) ==
  /\ \A p \in Writers : wloc[p].pc = "idle"
  /\ storage' = LoadInto(storage, Parse(f), TRUE)
  /\ pre' = storage'
  /\ everStored' = everStored \cup DOMAIN Parse(f)
  /\ lastAnswer' = NoAnswer
  /\ ret' = NoRet
  /\ UNCHANGED <<wloc, worder, calls>>

\* the calls of the workers have returned; the next calls start from here
Returned ==
  /\ \A p \in Writers : wloc[p].pc \in {"idle", "done"}
  /\ \E p \in Writers : wloc[p].pc = "done"
  /\ wloc' = [p \in Writers |-> IdleW]
  /\ pre' = storage
  /\ worder' = <<>>
  /\ ret' = NoRet
  /\ UNCHANGED <<storage, lastAnswer, everStored, calls>>

IdleRest ==
  /\ comps = <<>> /\ tr = <<>> /\ file = <<>> /\ rt = <<>> /\ wf = <<>> /\ found = <<>>

StoreInit ==
  /\ storage = [s \in {} |-> Plain(EmptyDict)]
  /\ wloc = [p \in Writers |-> IdleW]
  /\ ret = NoRet
  /\ lastAnswer = NoAnswer
  /\ pre = storage
  /\ everStored = {}
  /\ worder = <<>>
  /\ calls = 0
  /\ IdleRest

StoreNext ==
  \/ \E p \in Writers, scope \in Scopes, key \in Keys, value \in AnswerValues :
       AnswerGet(p, scope, key, value) /\ UNCHANGED <<transVars, roundVars, discVars>>
  \/ \E p \in Writers : AnswerSetItem(p) /\ UNCHANGED <<transVars, roundVars, discVars>>
  \/ \E p \in Writers : AnswerWriteBack(p) /\ UNCHANGED <<transVars, roundVars, discVars>>
  \/ \E scope \in Scopes, fallback \in Fallbacks :
       Get(scope, fallback) /\ UNCHANGED <<transVars, roundVars, discVars>>
  \/ \E f \in StoreFiles : Load(f) /\ UNCHANGED <<transVars, roundVars, discVars>>
  \/ Returned /\ UNCHANGED <<transVars, roundVars, discVars>>

StoreSpec == StoreInit /\ [][StoreNext]_vars

-----------------------------------------------------------------------------
(* Dialogs and their components (leapp.dialogs), as the store reads them:   *)
(* dialog.scope, dialog.components, component.key, component.value_type,    *)
(* component.choices (when the component has the attribute) and the         *)
(* component.value slot, None until translate writes it.                    *)

Component(key, type, hasChoices, choices) ==
  [key |-> key, value_type |-> type, has_choices |-> hasChoices, choices |-> choices]

DialogIds == {"dA", "dB"}

DialogDef(d) ==
  IF d = "dA"
    THEN [scope |-> "s1",
          components |-> << Component("k1", "bool", FALSE, {}),
                            Component("k2", "int", FALSE, {}),
                            Component("k3", "str", FALSE, {}) >>]
    ELSE [scope |-> "s2",
          components |-> << Component("k1", "tuple", TRUE, {sA, sB}),
                            Component("k2", "str", TRUE, {sA, sB}) >>]

\* tuple(set): the elements of the set in the order the set iterates them,
\* which Python does not fix; ord is one iteration order of the strings
Orders == { <<sA, sB>>, <<sB, sA>> }

SeqSet(q) == {q[i] : i \in 1..Len(q)}

TupleOf(set, ord) == SelectSeq(ord, LAMBDA x : x \in set)

\* line 89
BoolCoerce(x) == BoolV(Lower(x.v) = <<"t", "r", "u", "e">>)

\* line 91: int(entry[key]) raises or gives the integer
IntCoerceDefaults(x) ==
  IF IntFails(x.v) THEN [err |-> FALSE, val |-> IntV(0)]
  ELSE [err |-> FALSE, val |-> IntV(IntParse(x.v))]

IntCoerce(x) ==
  IF IntFails(x.v) THEN [err |-> TRUE, val |-> x]
  ELSE [err |-> FALSE, val |-> IntV(IntParse(x.v))]

\* lines 93-94
TupleCoerce(x, choices, ord) ==
  TupleV(TupleOf(SeqSet(Split(x.v, ";")) \cap choices, ord))

\* lines 96-97
KeepChoiceRaw(x, choices) == x

KeepChoice(x, choices) == IF x.v \in choices THEN x ELSE NoneV

\* line 87
NeedsCoercion(m, c) == c.key \in DOMAIN m /\ IsString(m[c.key])

\* lines 88-97 for one component whose stored value is a string
Coerce(c, x, ord) ==
  CASE c.value_type = "bool"  -> [err |-> FALSE, val |-> BoolCoerce(x)]
    [] c.value_type = "int"   -> IntCoerce(x)
    [] c.value_type = "tuple" -> [err |-> FALSE, val |-> TupleCoerce(x, c.choices, ord)]
    [] OTHER -> [err |-> FALSE,
                 val |-> IF c.has_choices THEN KeepChoice(x, c.choices) ELSE x]

\* line 98, which belongs to the body of the test of line 87: the slot of a
\* component is written when its value has been coerced and left alone otherwise
ValueSlotReset(m, c, old, coerced) == IF coerced THEN DictGet(m, c.key) ELSE NoneV

ValueSlot(m, c, old, coerced) == IF coerced THEN DictGet(m, c.key) ELSE old

\* lines 86-98: the loop over the components from component i on; the result
\* is the entry and the value slots when the loop ends or int() raises
RECURSIVE TranslateLoop(_, _, _, _, _)
TranslateLoop(m, components, i, vals, ord) ==
  IF i > Len(components) THEN [m |-> m, vals |-> vals, err |-> FALSE]
  ELSE LET c == components[i] IN
    IF NeedsCoercion(m, c)
      THEN LET r == Coerce(c, m[c.key], ord) IN
        IF r.err THEN [m |-> m, vals |-> vals, err |-> TRUE]
        ELSE LET m2 == DictSet(m, c.key, r.val) IN
          TranslateLoop(m2, components, i + 1,
                        [vals EXCEPT ![i] = ValueSlot(m2, c, vals[i], TRUE)], ord)
      ELSE TranslateLoop(m, components, i + 1,
                         [vals EXCEPT ![i] = ValueSlot(m, c, vals[i], FALSE)], ord)

\* line 85: `if entry:` of what self._storage.get(dialog.scope) returned
EntryTruthy(st, scope) == scope \in DOMAIN st /\ DOMAIN st[scope].m # {}

\* the storage when int() raised: the assignments of lines 89-97 went into
\* the shared dict if the entry is a DictProxy and into a local copy if not
AfterFailureWritesBack(st, scope, m) == StoragePut(st, scope, [st[scope] EXCEPT !.m = m])

AfterFailure(st, scope, m) ==
  IF st[scope].shared THEN StoragePut(st, scope, [st[scope] EXCEPT !.m = m]) ELSE st

\* AnswerStore.translate(dialog) as a function of the storage and the value
\* slots of the dialog: the storage, the slots, and whether int() raised
TranslateResult(st, d, vals, ord) ==
  IF EntryTruthy(st, DialogDef(d).scope)
    THEN LET scope == DialogDef(d).scope
             r == TranslateLoop(st[scope].m, DialogDef(d).components, 1, vals, ord)
         IN IF r.err
              THEN [st |-> AfterFailure(st, scope, r.m), vals |-> r.vals, err |-> TRUE]
              ELSE [st |-> StoragePut(st, scope, [st[scope] EXCEPT !.m = r.m]),
                    vals |-> r.vals, err |-> FALSE]
    ELSE [st |-> st, vals |-> vals, err |-> FALSE]

-----------------------------------------------------------------------------
(* Workflows: workflow.phase_actors is a sequence of phases, a phase a      *)
(* sequence of stages, stage.actors a sequence of actors and actor.dialogs  *)
(* a sequence of dialogs.  The first element of a Python sequence is        *)
(* element 1 here.                                                          *)

\* dialogs.extend(actor.dialogs) for the actors of a stage
RECURSIVE StageDialogs(_)
StageDialogs(actors) ==
  IF Len(actors) = 0 THEN <<>> ELSE Head(actors) \o StageDialogs(Tail(actors))

RECURSIVE StagesDialogs(_)
StagesDialogs(stages) ==
  IF Len(stages) = 0 THEN <<>>
  ELSE StageDialogs(Head(stages)) \o StagesDialogs(Tail(stages))

\* phase[1:]
RestKeepsFirst(phase) == phase

Rest(phase) == IF Len(phase) = 0 THEN <<>> ELSE Tail(phase)

\* AnswerStore._get_dialogs(workflow)
RECURSIVE GetDialogs(_)
GetDialogs(workflow) ==
  IF Len(workflow) = 0 THEN <<>>
  ELSE StagesDialogs(Rest(Head(workflow))) \o GetDialogs(Tail(workflow))

\* lines 72-73: translate the dialogs in turn until one raises
RECURSIVE TranslateAll(_, _, _, _, _)
TranslateAll(st, cv, dialogs, n, ord) ==
  IF Len(dialogs) = 0 THEN [st |-> st, cv |-> cv, err |-> FALSE, n |-> n]
  ELSE LET d == Head(dialogs)
           r == TranslateResult(st, d, cv[d], ord)
       IN IF r.err
            THEN [st |-> r.st, cv |-> [cv EXCEPT ![d] = r.vals], err |-> TRUE, n |-> n]
            ELSE TranslateAll(r.st, [cv EXCEPT ![d] = r.vals], Tail(dialogs), n + 1, ord)

-----------------------------------------------------------------------------
(* The driver process: answer, load, load_and_translate_for_workflow,       *)
(* translate and translate_for_workflow, each call run to its end.          *)

TransFiles ==
  { << Section("s1"), Option("k1", <<"T", "r", "u", "e">>), Option("k2", <<"5">>),
       Option("k3", sA),
       Section("s2"), Option("k1", <<"a", ";", "b", ";", "c">>), Option("k2", sA) >>,
    << Section("s1"), Comment, Option("k1", <<"n", "o">>), Option("k2", <<"x">>),
       Blank,
       Section("s2"), Option("k1", <<"c", ";", "a", ";", "a">>), Option("k2", sC) >>,
    << Section("s1"), Option("K3", sB), Option("k1", <<"T", "R", "U", "E">>),
       Option("k2", <<" ", "-", "1", "2", " ">>),
       Section("s2"), NoValue("k1") >> }

AnswerInputs ==
  { <<"s1", "k1", BoolV(TRUE)>>, <<"s2", "k1", StrV(<<"b", ";", "a">>)>> }

TransWorkflows ==
  { << << << <<"dB">> >>, << <<"dA">> >>, << <<>>, <<"dB">> >> >> >>,
    << << << <<"dA">> >> >>, << << <<"dA">> >>, << <<"dB", "dA">> >> >> >> }

\* the last call: its name, its arguments, whether it raised, whether it is a
\* translate repeated right after a translate of the same dialog that returned,
\* and the number of dialogs translate_for_workflow translated to the end
NoOp == [op |-> "none", dialog |-> "dA", dialogs |-> <<>>, answer_file |-> <<>>,
         err |-> FALSE, again |-> FALSE, n |-> 0]

\* AnswerStore.answer(scope, key, value), lines 20-25 without interruption
Answer(scope, key, value) ==
  /\ LET e == StorageGet(storage, scope, Plain(EmptyDict)) IN
       storage' = StoragePut(storage, scope, [e EXCEPT !.m = DictSet(e.m, key, value)])
  /\ tr' = [NoOp EXCEPT !.op = "answer"]
  /\ UNCHANGED comps

\* AnswerStore.load(answer_file)
LoadFile(f) ==
  /\ storage' = LoadInto(storage, Parse(f), TRUE)
  /\ tr' = [NoOp EXCEPT !.op = "load"]
  /\ UNCHANGED comps

\* AnswerStore.translate(dialog)
Translate(d, ord) ==
  LET r == TranslateResult(storage, d, comps[d], ord) IN
    /\ storage' = r.st
    /\ comps' = [comps EXCEPT ![d] = r.vals]
    /\ tr' = [NoOp EXCEPT !.op = "translate", !.dialog = d, !.err = r.err,
                          !.again = (tr.op = "translate" /\ tr.dialog = d /\ ~tr.err)]

\* AnswerStore.translate_for_workflow(workflow)
TranslateForWorkflow(w, ord) ==
  LET r == TranslateAll(storage, comps, GetDialogs(w), 0, ord) IN
    /\ storage' = r.st
    /\ comps' = r.cv
    /\ tr' = [NoOp EXCEPT !.op = "translate_for_workflow", !.dialogs = GetDialogs(w),
                          !.err = r.err, !.n = r.n]

\* AnswerStore.load_and_translate_for_workflow(answer_file, workflow)
LoadAndTranslateForWorkflow(f, w, ord) ==
  LET loaded == LoadInto(storage, Parse(f), FALSE)
      r == TranslateAll(loaded, comps, GetDialogs(w), 0, ord)
  IN
    /\ storage' = r.st
    /\ comps' = r.cv
    /\ tr' = [NoOp EXCEPT !.op = "load_and_translate_for_workflow",
                          !.dialogs = GetDialogs(w), !.answer_file = f,
                          !.err = r.err, !.n = r.n]

NoSlots == [d \in DialogIds |-> [i \in 1..Len(DialogDef(d).components) |-> NoneV]]

TransInit ==
  /\ storage = [s \in {} |-> Plain(EmptyDict)]
  /\ wloc = [p \in Writers |-> IdleW]
  /\ ret = NoRet
  /\ lastAnswer = NoAnswer
  /\ pre = storage
  /\ everStored = {}
  /\ worder = <<>>
  /\ calls = 0
  /\ comps = NoSlots
  /\ tr = NoOp
  /\ file = <<>> /\ rt = <<>> /\ wf = <<>> /\ found = <<>>

transRest == <<wloc, ret, lastAnswer, pre, everStored, worder, calls, roundVars, discVars>>

TransNext ==
  \/ \E a \in AnswerInputs : Answer(a[1], a[2], a[3]) /\ UNCHANGED transRest
  \/ \E f \in TransFiles : LoadFile(f) /\ UNCHANGED transRest
  \/ \E d \in DialogIds, ord \in Orders : Translate(d, ord) /\ UNCHANGED transRest
  \/ \E w \in TransWorkflows, ord \in Orders :
       TranslateForWorkflow(w, ord) /\ UNCHANGED transRest
  \/ \E f \in TransFiles, w \in TransWorkflows, ord \in Orders :
       LoadAndTranslateForWorkflow(f, w, ord) /\ UNCHANGED transRest

TransSpec == TransInit /\ [][TransNext]_vars

-----------------------------------------------------------------------------
(* AnswerStore._get_dialogs on the workflows of a bounded shape *)

MaxPhases == 2
MaxStages == 2

\* stage.actors of the stages a phase is made of: each actor is its dialogs
StageKinds ==
  { << <<"d1">>, <<"d2", "d3">> >>,
    << <<>>, <<"d4">> >>,
    << >> }

SeqsUpTo(set, n) == UNION {[1..k -> set] : k \in 0..n}

Workflows == SeqsUpTo(SeqsUpTo(StageKinds, MaxStages), MaxPhases)

NotFound == [done |-> FALSE, dialogs |-> <<>>]

DiscInit ==
  /\ wf \in Workflows
  /\ found = NotFound
  /\ storage = [s \in {} |-> Plain(EmptyDict)]
  /\ wloc = [p \in Writers |-> IdleW]
  /\ ret = NoRet
  /\ lastAnswer = NoAnswer
  /\ pre = storage
  /\ everStored = {}
  /\ worder = <<>>
  /\ calls = 0
  /\ comps = NoSlots
  /\ tr = NoOp
  /\ file = <<>> /\ rt = <<>>

\* dialogs = self._get_dialogs(workflow)
Discover ==
  /\ ~found.done
  /\ found' = [done |-> TRUE, dialogs |-> GetDialogs(wf)]
  /\ UNCHANGED <<wf, storeVars, transVars, roundVars>>

DiscNext == Discover

DiscSpec == DiscInit /\ [][DiscNext]_vars

-----------------------------------------------------------------------------
(* AnswerStore.generate, and the round trip through the answer file *)

CommentLines(n) == [i \in 1..n |-> Comment]

\* ';'.join(answer): of a tuple its elements, of a string its characters
JoinAnswer(x) ==
  IF x.t = "tuple" THEN StrV(Join(";", x.v))
  ELSE StrV(Join(";", [i \in 1..Len(x.v) |-> <<x.v[i]>>]))

\* lines 146-162: the lines of answer_entry and of choices for one component
ComponentLines(st, scope, c) ==
  LET stored == DictGet(StorageGet(st, scope, Plain(EmptyDict)).m, c.key)
      answer == IF c.has_choices /\ c.value_type = "tuple" /\ Truthy(stored)
                  THEN JoinAnswer(stored) ELSE stored
      choices == IF c.has_choices THEN CommentLines(1 + Cardinality(c.choices)) ELSE <<>>
      hint == IF c.has_choices /\ c.value_type = "tuple" THEN CommentLines(2) ELSE <<>>
      entry == IF Truthy(answer) THEN <<Option(c.key, Format(answer))>>
               ELSE CommentLines(2)
  IN CommentLines(5) \o choices \o hint \o entry \o <<Blank>>

RECURSIVE ComponentsLines(_, _, _)
ComponentsLines(st, scope, components) ==
  IF Len(components) = 0 THEN <<>>
  ELSE ComponentLines(st, scope, Head(components))
         \o ComponentsLines(st, scope, Tail(components))

\* AnswerStore.generate(dialogs, answer_file_path): the lines of the file
RECURSIVE GenerateLines(_, _)
GenerateLines(st, dialogs) ==
  IF Len(dialogs) = 0 THEN <<>>
  ELSE LET d == DialogDef(Head(dialogs)) IN
    (IF Len(d.components) = 0 THEN <<>>
     ELSE <<Section(d.scope), Comment, Comment>>
            \o ComponentsLines(st, d.scope, d.components))
    \o GenerateLines(st, Tail(dialogs))

TypedAnswers ==
  { <<"s1", "k1", BoolV(TRUE)>>, <<"s1", "k1", BoolV(FALSE)>>,
    <<"s1", "k2", IntV(0)>>, <<"s1", "k2", IntV(5)>>, <<"s1", "k2", IntV(0 - 12)>>,
    <<"s1", "k3", StrV(sA)>>,
    <<"s2", "k1", TupleV(<<>>)>>, <<"s2", "k1", TupleV(<<sA>>)>>,
    <<"s2", "k1", TupleV(<<sB, sA>>)>>,
    <<"s2", "k2", StrV(sA)>>, <<"s2", "k2", StrV(sB)>> }

RoundWorkflows ==
  { << << << >>, << <<"dA">>, <<"dB">> >> >> >>,
    << << << <<"dA">> >>, << <<"dB">> >> >> >> }

Answering == [stage |-> "answering", dialogs |-> <<>>,
              orig |-> [s \in {} |-> Plain(EmptyDict)]]

RoundInit ==
  /\ storage = [s \in {} |-> Plain(EmptyDict)]
  /\ wloc = [p \in Writers |-> IdleW]
  /\ ret = NoRet
  /\ lastAnswer = NoAnswer
  /\ pre = storage
  /\ everStored = {}
  /\ worder = <<>>
  /\ calls = 0
  /\ comps = NoSlots
  /\ tr = NoOp
  /\ file = <<>>
  /\ rt = Answering
  /\ wf = <<>> /\ found = <<>>

\* an actor answers a question with a value of the type of its component
TypedAnswer(scope, key, value) ==
  /\ rt.stage = "answering"
  /\ Answer(scope, key, value)
  /\ UNCHANGED <<file, rt>>

\* AnswerStore.generate_for_workflow(workflow, answer_file_path)
GenerateForWorkflow(w) ==
  /\ rt.stage = "answering"
  /\ file' = GenerateLines(storage, GetDialogs(w))
  /\ rt' = [stage |-> "generated", dialogs |-> GetDialogs(w), orig |-> storage]
  /\ tr' = [NoOp EXCEPT !.op = "generate_for_workflow"]
  /\ UNCHANGED <<storage, comps>>

\* AnswerStore.load(answer_file_path) of the file generate wrote
LoadGenerated ==
  /\ rt.stage = "generated"
  /\ LoadFile(file)
  /\ rt' = [rt EXCEPT !.stage = "loaded"]
  /\ UNCHANGED file

\* AnswerStore.translate_for_workflow(workflow) of the same workflow
TranslateLoaded(ord) ==
  /\ rt.stage = "loaded"
  /\ LET r == TranslateAll(storage, comps, rt.dialogs, 0, ord) IN
       /\ storage' = r.st
       /\ comps' = r.cv
       /\ tr' = [NoOp EXCEPT !.op = "translate_for_workflow", !.dialogs = rt.dialogs,
                             !.err = r.err, !.n = r.n]
  /\ rt' = [rt EXCEPT !.stage = "done"]
  /\ UNCHANGED file

roundRest == <<wloc, ret, lastAnswer, pre, everStored, worder, calls, discVars>>

RoundNext ==
  \/ \E a \in TypedAnswers : TypedAnswer(a[1], a[2], a[3]) /\ UNCHANGED roundRest
  \/ \E w \in RoundWorkflows : GenerateForWorkflow(w) /\ UNCHANGED roundRest
  \/ LoadGenerated /\ UNCHANGED roundRest
  \/ \E ord \in Orders : TranslateLoaded(ord) /\ UNCHANGED roundRest

RoundSpec == RoundInit /\ [][RoundNext]_vars

-----------------------------------------------------------------------------
(* Properties of answer and get *)

IsEntry(x) == "shared" \in DOMAIN x

\* C1: a get of a scope for which nothing has been stored returns the
\* fallback, and a get made immediately after a non-interleaved
\* answer(S, K, V) returns an entry of S that maps K to V.
C1_GetAfterAnswer ==
  ret.valid =>
    /\ (~ret.stored => ret.val = ret.fallback)
    /\ (ret.last.valid /\ ret.last.scope = ret.scope =>
          /\ IsEntry(ret.val)
          /\ ret.last.key \in DOMAIN ret.val.m
          /\ ret.val.m[ret.last.key] = ret.last.value)

C1_Witness ==
  /\ ret.valid /\ ret.last.valid /\ ret.last.scope = ret.scope
  /\ calls = MaxCalls
  /\ \E s \in Scopes : s \notin everStored

BothDone == \A p \in Writers : wloc[p].pc = "done"
SameScope == wloc["w1"].scope = wloc["w2"].scope
KeysDiffer == wloc["w1"].key # wloc["w2"].key

\* both calls read the entry before either wrote it back
Concurrent == \A p \in Writers : wloc[p].after = {}

FirstWriter == worder[1]
LastWriter  == worder[2]

PreEntry(scope) == IF scope \in DOMAIN pre THEN pre[scope].m ELSE EmptyDict
SharedAtStart(scope) == scope \in DOMAIN pre /\ pre[scope].shared
FinalEntry(scope) == storage[scope].m

\* C2 (as stated): two concurrent calls of answer on the same scope with
\* different keys that both read before either writes back leave an entry
\* from which the key of the call that wrote back first is missing.
C2_EarlierKeyLost ==
  (BothDone /\ SameScope /\ KeysDiffer /\ Concurrent) =>
     wloc[FirstWriter].key \notin DOMAIN FinalEntry(wloc[FirstWriter].scope)

\* C2 (amended): when the entry of the scope is absent or a plain mapping,
\* the final entry is what the last call to write back read, with its own key
\* set; when both calls read before either wrote back, the key of the call
\* that wrote back first is left as it was before the two calls.
C2_LastWriteBackWins ==
  (BothDone /\ SameScope /\ KeysDiffer /\ ~SharedAtStart(wloc["w1"].scope)) =>
     LET f == wloc[FirstWriter]
         l == wloc[LastWriter]
         final == FinalEntry(l.scope)
     IN /\ storage[l.scope] = Plain(DictSet(l.snap, l.key, l.value))
        /\ Concurrent =>
             /\ (f.key \in DOMAIN final) = (f.key \in DOMAIN PreEntry(f.scope))
             /\ DictGet(final, f.key) = DictGet(PreEntry(f.scope), f.key)
        /\ (f.key \in DOMAIN final /\ final[f.key] = f.value
              /\ DictGet(PreEntry(f.scope), f.key) # f.value) => ~Concurrent

C2_Witness ==
  /\ BothDone /\ SameScope /\ KeysDiffer /\ Concurrent
  /\ ~SharedAtStart(wloc["w1"].scope)
  /\ wloc[FirstWriter].key \notin DOMAIN FinalEntry(wloc["w1"].scope)

\* C3: once two calls of answer on different scopes have both finished,
\* whatever the interleaving of their steps, each scope maps the key of its
\* call to the value of its call and every other key that either scope (or
\* any scope) had before the calls still has the value it had.
C3_DifferentScopesIndependent ==
  (BothDone /\ ~SameScope) =>
     /\ \A p \in Writers :
          /\ wloc[p].scope \in DOMAIN storage
          /\ wloc[p].key \in DOMAIN FinalEntry(wloc[p].scope)
          /\ FinalEntry(wloc[p].scope)[wloc[p].key] = wloc[p].value
     /\ \A s \in DOMAIN pre : \A k \in DOMAIN pre[s].m :
          (\A p \in Writers : ~(wloc[p].scope = s /\ wloc[p].key = k)) =>
             /\ s \in DOMAIN storage
             /\ k \in DOMAIN storage[s].m
             /\ storage[s].m[k] = pre[s].m[k]

C3_Witness ==
  /\ BothDone /\ ~SameScope /\ Concurrent
  /\ \E s \in DOMAIN pre : \E k \in DOMAIN pre[s].m :
       \E p \in Writers : wloc[p].scope = s /\ wloc[p].key # k /\ ~pre[s].shared

-----------------------------------------------------------------------------
(* Properties of translate *)

Scope(d) == DialogDef(d).scope
Comps(d) == DialogDef(d).components
Idx(d)   == 1..Len(Comps(d))

\* the ';'-separated elements of a string: the maximal runs without ';'
Elements(s) ==
  { SubSeq(s, i, j) : <<i, j>> \in
      { x \in (1..(Len(s) + 1)) \X (0..Len(s)) :
          /\ x[1] <= x[2] + 1
          /\ (x[1] = 1 \/ s[x[1] - 1] = ";")
          /\ (x[2] = Len(s) \/ s[x[2] + 1] = ";")
          /\ \A k \in x[1]..x[2] : s[k] # ";" } }

\* the int components of d whose stored string int() cannot parse
Unparseable(st, d) ==
  { i \in Idx(d) : /\ Comps(d)[i].value_type = "int"
                   /\ NeedsCoercion(st[Scope(d)].m, Comps(d)[i])
                   /\ IntFails(st[Scope(d)].m[Comps(d)[i].key].v) }

Fails(st, d) == EntryTruthy(st, Scope(d)) /\ Unparseable(st, d) # {}

\* C4 (as stated): after translate(dialog) has returned on a scope that has an
\* entry, the value slot of every component of the dialog is entry.get(key).
C4_ValueWrittenForEveryComponent ==
  (tr.op = "translate" /\ ~tr.err /\ Scope(tr.dialog) \in DOMAIN storage) =>
     \A i \in Idx(tr.dialog) :
        comps[tr.dialog][i] = DictGet(storage[Scope(tr.dialog)].m, Comps(tr.dialog)[i].key)

\* C5: a translate(dialog) that runs right after a translate of the same
\* dialog that returned leaves the storage and every value slot as they were,
\* and returns.
C5_TranslateIdempotent ==
  [][(tr'.op = "translate" /\ tr'.again) =>
        (storage' = storage /\ comps' = comps /\ ~tr'.err)]_vars

C5_Witness ==
  /\ tr.op = "translate" /\ tr.again /\ ~tr.err /\ tr.dialog = "dB"
  /\ EntryTruthy(storage, "s2")
  /\ DictGet(storage["s2"].m, "k1").t = "tuple"
  /\ comps["dB"][1].t = "tuple"

\* C8: translate does not raise because of a value outside the choices: it
\* raises only when an int component holds an unparseable string.  When it
\* returns, the stored value of a multi-choice component that held a string is
\* a tuple holding, once each, the ';'-separated elements of the string that
\* are choices, and that of a choice-restricted string component is the string
\* if it is a choice and None if not.
C8_SilentDiscard ==
  [][(tr'.op = "translate" /\ EntryTruthy(storage, Scope(tr'.dialog))) =>
        LET d  == tr'.dialog
            m  == storage[Scope(d)].m
            m2 == storage'[Scope(d)].m
        IN /\ tr'.err => Unparseable(storage, d) # {}
           /\ ~tr'.err =>
                \A i \in Idx(d) :
                   LET c == Comps(d)[i] IN
                     NeedsCoercion(m, c) =>
                        /\ c.value_type = "tuple" =>
                             /\ m2[c.key].t = "tuple"
                             /\ SeqSet(m2[c.key].v) = Elements(m[c.key].v) \cap c.choices
                             /\ Len(m2[c.key].v) = Cardinality(SeqSet(m2[c.key].v))
                        /\ (c.value_type = "str" /\ c.has_choices) =>
                             m2[c.key] = IF m[c.key].v \in c.choices THEN m[c.key] ELSE NoneV
  ]_vars

C8_Witness ==
  /\ tr.op = "translate" /\ tr.dialog = "dB" /\ ~tr.err /\ ~tr.again
  /\ EntryTruthy(storage, "s2")
  /\ DictGet(storage["s2"].m, "k1") = TupleV(<<sA>>)
  /\ "k2" \in DOMAIN storage["s2"].m /\ storage["s2"].m["k2"] = NoneV
  /\ comps["dB"][1] = TupleV(<<sA>>)

\* what C9 says of a translate of dialog d that starts from storage st and
\* ends in storage st2
IntCoercion(st, st2, d, err) ==
  /\ err = (Unparseable(st, d) # {})
  /\ \A i \in Unparseable(st, d) :
       LET k == Comps(d)[i].key IN
         k \in DOMAIN st2[Scope(d)].m /\ st2[Scope(d)].m[k] = st[Scope(d)].m[k]
  /\ ~err =>
       \A i \in Idx(d) :
          LET c == Comps(d)[i] IN
            (c.value_type = "int" /\ NeedsCoercion(st[Scope(d)].m, c)) =>
               st2[Scope(d)].m[c.key] = IntV(IntParse(st[Scope(d)].m[c.key].v))

\* what C9 says of a translation of the dialogs ds in turn from storage st
Propagates(st, ds) ==
  LET failing == {j \in 1..Len(ds) : Fails(st, ds[j])} IN
    /\ tr'.err = (failing # {})
    /\ tr'.err =>
         LET first == CHOOSE j \in failing : \A k \in failing : j <= k IN
           /\ tr'.n = first - 1
           /\ \A i \in Unparseable(st, ds[first]) :
                LET k == Comps(ds[first])[i].key IN
                  storage'[Scope(ds[first])].m[k] = st[Scope(ds[first])].m[k]
           /\ \A j \in (first + 1)..Len(ds) :
                (\A k \in 1..first : ds[k] # ds[j]) =>
                   /\ comps'[ds[j]] = comps[ds[j]]
                   /\ Scope(ds[j]) \in DOMAIN st =>
                        storage'[Scope(ds[j])] = st[Scope(ds[j])]

\* C9: a translate that meets an int component whose stored string int()
\* cannot parse raises, and leaves that string in place; it raises for no
\* other reason, and when it returns every parseable string of an int
\* component is replaced by its integer.  translate_for_workflow and
\* load_and_translate_for_workflow raise at the first such dialog and do not
\* translate the dialogs after it.
C9_IntErrorPropagates ==
  [][/\ (tr'.op = "translate" /\ EntryTruthy(storage, Scope(tr'.dialog))) =>
          IntCoercion(storage, storage', tr'.dialog, tr'.err)
     /\ tr'.op = "translate_for_workflow" => Propagates(storage, tr'.dialogs)
     /\ tr'.op = "load_and_translate_for_workflow" =>
          Propagates(LoadInto(storage, Parse(tr'.answer_file), FALSE), tr'.dialogs)
  ]_vars

C9_Witness ==
  /\ tr.op = "translate_for_workflow" /\ tr.err /\ tr.n = 0
  /\ tr.dialogs = <<"dA", "dB">>
  /\ storage["s1"].m["k2"] = StrV(<<"x">>)
  /\ EntryTruthy(storage, "s2") /\ IsString(DictGet(storage["s2"].m, "k1"))

\* what C10 says of the dialog at which a translation of the dialogs ds in
\* turn from storage st raised
FailedDialogUntouched(st, ds) ==
  LET d == ds[tr'.n + 1] IN
    (/\ \A k \in 1..tr'.n : Scope(ds[k]) # Scope(d)
     /\ ~st[Scope(d)].shared) =>
       storage'[Scope(d)] = st[Scope(d)]

\* C10: a translate that raises on a scope whose entry is a plain mapping
\* leaves the storage as it was, although the value slots of the components
\* coerced before the failing one have been written; so does the translate
\* that raises inside translate_for_workflow or
\* load_and_translate_for_workflow leave the entry it was given.
C10_FailedTranslateWritesNothing ==
  [][/\ (/\ tr'.op = "translate" /\ tr'.err
         /\ ~storage[Scope(tr'.dialog)].shared) =>
           LET d == tr'.dialog
               m == storage[Scope(d)].m
           IN /\ storage' = storage
              /\ \A i \in Idx(d) :
                   (/\ \A j \in Unparseable(storage, d) : i < j
                    /\ Comps(d)[i].value_type = "bool"
                    /\ NeedsCoercion(m, Comps(d)[i])) =>
                      comps'[d][i] =
                        BoolV(Lower(m[Comps(d)[i].key].v) = <<"t", "r", "u", "e">>)
     /\ (tr'.op = "translate_for_workflow" /\ tr'.err) =>
          FailedDialogUntouched(storage, tr'.dialogs)
     /\ (tr'.op = "load_and_translate_for_workflow" /\ tr'.err) =>
          FailedDialogUntouched(LoadInto(storage, Parse(tr'.answer_file), FALSE),
                                tr'.dialogs)
  ]_vars

C10_Witness ==
  /\ tr.op = "translate" /\ tr.err /\ tr.dialog = "dA"
  /\ ~storage["s1"].shared
  /\ IsString(DictGet(storage["s1"].m, "k1"))
  /\ comps["dA"][1].t = "bool"

-----------------------------------------------------------------------------
(* Properties of _get_dialogs and of the round trip *)

\* the places of the dialogs of a workflow outside the first stage of a phase:
\* (phase, stage, actor, dialog)
Places(w) ==
  UNION { UNION { UNION { { <<p, g, a, d>> : d \in 1..Len(w[p][g][a]) }
                          : a \in 1..Len(w[p][g]) }
                  : g \in 2..Len(w[p]) }
          : p \in 1..Len(w) }

Before(a, b) ==
  \E i \in 1..4 : a[i] < b[i] /\ \A j \in 1..(i - 1) : a[j] = b[j]

Rank(w, c) == Cardinality({b \in Places(w) : Before(b, c)})

SameAnswer(x, y) ==
  IF x.t = "tuple" THEN y.t = "tuple" /\ SeqSet(x.v) = SeqSet(y.v) ELSE x = y

\* C6 (as stated): after generate, load of the file and translate of the same
\* dialogs, every component that had a typed answer has the same answer again.
C6_RoundTrip ==
  rt.stage = "done" =>
    \A j \in 1..Len(rt.dialogs) : \A i \in Idx(rt.dialogs[j]) :
       LET scope == Scope(rt.dialogs[j])
           key == Comps(rt.dialogs[j])[i].key
       IN (scope \in DOMAIN rt.orig /\ key \in DOMAIN rt.orig[scope].m) =>
            /\ scope \in DOMAIN storage
            /\ key \in DOMAIN storage[scope].m
            /\ SameAnswer(rt.orig[scope].m[key], storage[scope].m[key])

====
